---- MODULE Spec2Model ----
(***************************************************************************)
(* A model of the float generators of package rapid (floats.go) and of the *)
(* generator combinators exercised by its tests (Filter, Map, Custom,      *)
(* OneOf, Ptrs).                                                           *)
(*                                                                         *)
(* Floats are kept as their IEEE-754 fields [sg, ex, mt]; their order is   *)
(* the order of the exact values they denote.  The binary layouts are the  *)
(* program's layouts with the field widths scaled down so that every bit   *)
(* pattern of the wide type and every bit stream can be enumerated: the    *)
(* four width definitions below stand for 8/23 and 11/52.                  *)
(***************************************************************************)
EXTENDS Integers, Sequences, FiniteSets, TLC

VARIABLES
    pc,     \* position of the float draw
    call,   \* the constructor call and its arguments
    g,      \* the floatGen built by the constructor, or NoGen
    s,      \* the bit stream: draw calls made, open groups, recorded groups
    u,      \* the locals of genFloatRange / genUfloatRange
    ret,    \* what floatGen.value returned
    run     \* the property run of the generator-algebra tests

vars == <<pc, call, g, s, u, ret, run>>

-----------------------------------------------------------------------------
(* Widths of the two float layouts (scaled), floats.go:13-18.              *)

float32ExpBits == 2
float32SignifBits == 1
float64ExpBits == 3
float64SignifBits == 2

floatExpLabel == "floatexp"
floatSignifLabel == "floatsignif"

\* uint64 has the width of the wide float's bit pattern.
UintBits == 1 + float64ExpBits + float64SignifBits

-----------------------------------------------------------------------------
(* Machine words.                                                          *)

bitmask64(n) == 2^n - 1

Shr(x, n) == x \div 2^n

Shl(x, n) == (x * 2^n) % 2^UintBits

And(x, n) == x % 2^n    \* x & bitmask64(n)

RECURSIVE BitOr(_, _)
BitOr(a, b) ==
    IF a = 0 THEN b
    ELSE IF b = 0 THEN a
    ELSE (IF a % 2 = 1 \/ b % 2 = 1 THEN 1 ELSE 0) + 2 * BitOr(a \div 2, b \div 2)

\* uint64(e) of a signed e
ToUint64(e) == e % 2^UintBits

RECURSIVE bitsLen(_)
bitsLen(x) == IF x <= 0 THEN 0 ELSE 1 + bitsLen(x \div 2)

-----------------------------------------------------------------------------
(* Floats of a layout with E exponent bits and S significand bits.         *)

Floats(E, S) == [sg : 0..1, ex : 0..(2^E - 1), mt : 0..(2^S - 1)]

Float32 == Floats(float32ExpBits, float32SignifBits)
Float64 == Floats(float64ExpBits, float64SignifBits)

IsNaN(f, E) == f.ex = 2^E - 1 /\ f.mt # 0
IsInf(f, E) == f.ex = 2^E - 1 /\ f.mt = 0

\* The magnitude of a non-NaN float in units of the layout's smallest
\* subnormal; an infinity sits one binade above the largest finite value.
Mag(f, S) == IF f.ex = 0 THEN f.mt ELSE 2^(f.ex - 1) * (2^S + f.mt)

FVal(f, S) == IF f.sg = 1 THEN -Mag(f, S) ELSE Mag(f, S)

FEq(a, b, E, S) == ~IsNaN(a, E) /\ ~IsNaN(b, E) /\ FVal(a, S) = FVal(b, S)
FLe(a, b, E, S) == ~IsNaN(a, E) /\ ~IsNaN(b, E) /\ FVal(a, S) <= FVal(b, S)

Eq32(a, b) == FEq(a, b, float32ExpBits, float32SignifBits)
Le32(a, b) == FLe(a, b, float32ExpBits, float32SignifBits)
Eq64(a, b) == FEq(a, b, float64ExpBits, float64SignifBits)
Le64(a, b) == FLe(a, b, float64ExpBits, float64SignifBits)

Zero == [sg |-> 0, ex |-> 0, mt |-> 0]

Neg(f) == [f EXCEPT !.sg = 1 - f.sg]

\* One unit of the narrow layout in units of the wide layout.
Unit32 ==
    2^((bitmask64(float64ExpBits - 1) - bitmask64(float32ExpBits - 1))
        + (float64SignifBits - float32SignifBits))

\* float64(x) of a float32 x: the wide float of the same value.
ToFloat64(x) ==
    IF IsNaN(x, float32ExpBits)
    THEN [sg |-> x.sg, ex |-> 2^float64ExpBits - 1,
          mt |-> x.mt * 2^(float64SignifBits - float32SignifBits)]
    ELSE IF IsInf(x, float32ExpBits)
    THEN [sg |-> x.sg, ex |-> 2^float64ExpBits - 1, mt |-> 0]
    ELSE CHOOSE f \in Float64 :
            /\ f.sg = x.sg
            /\ f.ex # 2^float64ExpBits - 1
            /\ Mag(f, float64SignifBits) = Mag(x, float32SignifBits) * Unit32

\* float32(f) of a non-NaN float64 f: round to nearest, ties to even.
ToFloat32(f) ==
    LET m == Mag(f, float64SignifBits)
        Dist(x) ==
            LET d == Mag(x, float32SignifBits) * Unit32 - m
            IN  IF d < 0 THEN -d ELSE d
        Cand == {x \in Float32 : x.sg = f.sg /\ ~IsNaN(x, float32ExpBits)}
        Near == {x \in Cand : \A y \in Cand : Dist(x) <= Dist(y)}
    IN  IF IsInf(f, float64ExpBits)
        THEN [sg |-> f.sg, ex |-> 2^float32ExpBits - 1, mt |-> 0]
        ELSE CHOOSE x \in Near : Cardinality(Near) = 1 \/ x.mt % 2 = 0

\* math.Float64bits and math.Float64frombits
Float64bits(f) ==
    f.sg * 2^(float64ExpBits + float64SignifBits) + f.ex * 2^float64SignifBits + f.mt

Float64frombits(b) ==
    [sg |-> Shr(b, float64ExpBits + float64SignifBits) % 2,
     ex |-> And(Shr(b, float64SignifBits), float64ExpBits),
     mt |-> And(b, float64SignifBits)]

-----------------------------------------------------------------------------
(* The bit stream: the primitive draws made so far, in order, and the      *)
(* groups opened on it.  A group records the stream position at its begin  *)
(* and at its end (-1 while it is open).                                   *)

NoStream == [draws |-> <<>>, open |-> <<>>, groups |-> <<>>]

cursor(st) == Len(st.draws)

\* the token beginGroup returns
nextGroup(st) == Len(st.groups) + 1

beginGroup(st, label, isCall) ==
    [st EXCEPT
        !.groups = Append(@, [label |-> label, isCall |-> isCall,
                              begin |-> cursor(st), end |-> -1]),
        !.open = Append(@, nextGroup(st))]

endGroup(st, i) ==
    [st EXCEPT
        !.groups[i].end = cursor(st),
        !.open = SelectSeq(@, LAMBDA t : t # i)]

drawCall(st, what) == [st EXCEPT !.draws = Append(@, what)]

\* genIntRange / genUintRange: some value of [lo, hi]
genIntRange(lo, hi) == lo..hi
genUintRange(lo, hi) == lo..hi

\* genUintRangeWidth: a value of [lo, hi] and the number of bits w drawn for
\* its offset from lo; w is at most the bit length of hi - lo.
genUintRangeWidth(lo, hi) ==
    {p \in (lo..hi) \X (0..bitsLen(hi - lo)) : p[1] - lo < 2^p[2]}

\* flipBiasedCoin: p = 0 and p = 1 are exact, any other p can fall either way.
flipBiasedCoin(p) ==
    IF p = "0" THEN {FALSE} ELSE IF p = "1" THEN {TRUE} ELSE {FALSE, TRUE}

-----------------------------------------------------------------------------
(* floats.go: the decomposition of a bound.                                *)

ufloatFracBits(e, signifBits) ==
    IF e <= 0 THEN signifBits
    ELSE IF e < signifBits THEN signifBits - e
    ELSE 0

ufloatParts_noClamp(f, expBits, signifBits) ==
    LET bits == And(Float64bits(f), UintBits - 1)
        e == Shr(bits, float64SignifBits) - bitmask64(float64ExpBits - 1)
        sig == Shr(And(bits, float64SignifBits), float64SignifBits - signifBits)
        n == ufloatFracBits(e, signifBits)
    IN  <<e, Shr(sig, n), And(sig, n)>>

ufloatParts(f, expBits, signifBits) ==
    LET bits == And(Float64bits(f), UintBits - 1)
        e0 == Shr(bits, float64SignifBits) - bitmask64(float64ExpBits - 1)
        b == bitmask64(expBits - 1)
        e == IF e0 < -b + 1 THEN -b + 1
             ELSE IF e0 > b THEN b
             ELSE e0
        sig == Shr(And(bits, float64SignifBits), float64SignifBits - signifBits)
        n == ufloatFracBits(e, signifBits)
    IN  <<e, Shr(sig, n), And(sig, n)>>

-----------------------------------------------------------------------------
(* floats.go: the constructors.                                            *)

NoGen == [typ |-> "none"]

NoCall == [fn |-> "none"]

NoLocals ==
    [neg |-> FALSE, depth |-> 0, min |-> Zero, max |-> Zero,
     minExp |-> 0, minSignifI |-> 0, minSignifF |-> 0,
     maxExp |-> 0, maxSignifI |-> 0, maxSignifF |-> 0,
     i |-> 0, j |-> 0, e |-> 0, fracBits |-> 0,
     siMin |-> 0, siMax |-> 0, si |-> 0,
     sfMin |-> 0, sfMax |-> 0, sf |-> 0, w |-> 0, k |-> 0]

\* the three assertf of Float32sRange
Float32sRangeAsserts(min, max) == Eq32(min, min) /\ Eq32(max, max) /\ Le32(min, max)

Float64sRangeAsserts_noOrder(min, max) == Eq64(min, min) /\ Eq64(max, max)

\* the three assertf of Float64sRange
Float64sRangeAsserts(min, max) == Eq64(min, min) /\ Eq64(max, max) /\ Le64(min, max)

Float32sRange(min, max) ==
    /\ pc = "new"
    /\ call' = [fn |-> "Float32sRange", min |-> min, max |-> max]
    /\ IF Float32sRangeAsserts(min, max)
       THEN /\ g' = [typ |-> "float32",
                     expBits |-> float32ExpBits, signifBits |-> float32SignifBits,
                     min |-> ToFloat64(min), max |-> ToFloat64(max)]
            /\ pc' = "value"
       ELSE /\ g' = NoGen
            /\ pc' = "assertf"
    /\ UNCHANGED <<s, u, ret, run>>

Float64sRange(min, max) ==
    /\ pc = "new"
    /\ call' = [fn |-> "Float64sRange", min |-> min, max |-> max]
    /\ IF Float64sRangeAsserts(min, max)
       THEN /\ g' = [typ |-> "float64",
                     expBits |-> float64ExpBits, signifBits |-> float64SignifBits,
                     min |-> min, max |-> max]
            /\ pc' = "value"
       ELSE /\ g' = NoGen
            /\ pc' = "assertf"
    /\ UNCHANGED <<s, u, ret, run>>

-----------------------------------------------------------------------------
(* floats.go: genFloatRange and genUfloatRange, one action per draw.       *)

\* posMin, negMin and pNeg of genFloatRange.  pNeg is kept as "0", "1" or,
\* for a range that crosses zero, "p": a probability the coin can take
\* either way.
signSplit(min, max) ==
    IF Le64(Zero, min) THEN [posMin |-> min, negMin |-> Zero, pNeg |-> "0"]
    ELSE IF Le64(max, Zero) THEN [posMin |-> Zero, negMin |-> Neg(max), pNeg |-> "1"]
    ELSE [posMin |-> Zero, negMin |-> Zero, pNeg |-> "p"]

\* genFloatRange up to its call of genUfloatRange, and genUfloatRange up to
\* the opening of the exponent group.
genFloatRange ==
    /\ pc = "value"
    /\ LET sp == signSplit(g.min, g.max)
       IN  \E neg \in flipBiasedCoin(sp.pNeg) :
            LET umin == IF neg THEN sp.negMin ELSE sp.posMin
                umax == IF neg THEN Neg(g.min) ELSE g.max
                st == drawCall(s, "flipBiasedCoin")
                lo == ufloatParts(umin, g.expBits, g.signifBits)
                hi == ufloatParts(umax, g.expBits, g.signifBits)
            IN  IF Le64(Zero, umin) /\ Le64(umin, umax)
                THEN /\ u' = [NoLocals EXCEPT
                                !.neg = neg, !.depth = Len(s.open),
                                !.min = umin, !.max = umax,
                                !.minExp = lo[1], !.minSignifI = lo[2],
                                !.minSignifF = lo[3],
                                !.maxExp = hi[1], !.maxSignifI = hi[2],
                                !.maxSignifF = hi[3],
                                !.i = nextGroup(st)]
                     /\ s' = beginGroup(st, floatExpLabel, FALSE)
                     /\ pc' = "exp"
                ELSE /\ u' = [NoLocals EXCEPT !.neg = neg, !.min = umin, !.max = umax]
                     /\ s' = st
                     /\ pc' = "assert"
    /\ UNCHANGED <<call, g, ret, run>>

\* the stream between the exponent draw and the integer-part draw
expToSignif_nested(st, i) == beginGroup(st, floatSignifLabel, FALSE)

expToSignif(st, i) == beginGroup(endGroup(st, i), floatSignifLabel, FALSE)

\* the bounds of the integer part of the significand
siRange(e, fracBits) ==
    IF u.minExp = u.maxExp THEN <<u.minSignifI, u.maxSignifI>>
    ELSE IF e = u.minExp THEN <<u.minSignifI, bitmask64(g.signifBits - fracBits)>>
    ELSE IF e = u.maxExp THEN <<0, u.maxSignifI>>
    ELSE <<0, bitmask64(g.signifBits - fracBits)>>

\* the bounds of the fractional part of the significand
sfRange(si) ==
    IF u.minExp = u.maxExp /\ u.minSignifI = u.maxSignifI
    THEN <<u.minSignifF, u.maxSignifF>>
    ELSE IF u.e = u.minExp /\ si = u.minSignifI
    THEN <<u.minSignifF, bitmask64(u.fracBits)>>
    ELSE IF u.e = u.maxExp /\ si = u.maxSignifI
    THEN <<0, u.maxSignifF>>
    ELSE <<0, bitmask64(u.fracBits)>>

drawExp ==
    /\ pc = "exp"
    /\ \E e \in genIntRange(u.minExp, u.maxExp) :
        LET st == expToSignif(drawCall(s, "genIntRange"), u.i)
            fracBits == ufloatFracBits(e, g.signifBits)
            r == siRange(e, fracBits)
        IN  /\ u' = [u EXCEPT !.e = e, !.fracBits = fracBits,
                              !.j = Len(st.groups),
                              !.siMin = r[1], !.siMax = r[2]]
            /\ s' = st
    /\ pc' = "signifI"
    /\ UNCHANGED <<call, g, ret, run>>

drawSignifI ==
    /\ pc = "signifI"
    /\ u.siMin <= u.siMax
    /\ \E si \in genUintRange(u.siMin, u.siMax) :
        LET r == sfRange(si)
        IN  u' = [u EXCEPT !.si = si, !.sfMin = r[1], !.sfMax = r[2]]
    /\ s' = drawCall(s, "genUintRange")
    /\ pc' = "signifF"
    /\ UNCHANGED <<call, g, ret, run>>

drawSignifF ==
    /\ pc = "signifF"
    /\ u.sfMin <= u.sfMax
    /\ \E p \in genUintRangeWidth(u.sfMin, u.sfMax) :
        u' = [u EXCEPT !.sf = p[1], !.w = p[2], !.k = 0]
    /\ s' = endGroup(drawCall(s, "genUintRangeWidth"), u.j)
    /\ pc' = "shift"
    /\ UNCHANGED <<call, g, ret, run>>

\* genUintRange and genUintRangeWidth assert that their range is not empty
emptyRange ==
    /\ \/ pc = "signifI" /\ u.siMin > u.siMax
       \/ pc = "signifF" /\ u.sfMin > u.sfMax
    /\ pc' = "assertRange"
    /\ u' = NoLocals
    /\ UNCHANGED <<call, g, s, ret, run>>

\* the break of the shift loop
shiftBreak_noMax(sf, sf_, sfMin, sfMax) == sf_ < sfMin \/ sf_ < sf

shiftBreak(sf, sf_, sfMin, sfMax) == sf_ < sfMin \/ sf_ > sfMax \/ sf_ < sf

\* one pass of the loop that doubles sf
shift ==
    /\ pc = "shift"
    /\ LET sf_ == Shl(u.sf, 1)
       IN  IF u.k < u.fracBits - u.w /\ ~shiftBreak(u.sf, sf_, u.sfMin, u.sfMax)
           THEN /\ u' = [u EXCEPT !.sf = sf_, !.k = @ + 1]
                /\ pc' = "shift"
           ELSE /\ u' = u
                /\ pc' = "pack"
    /\ UNCHANGED <<call, g, s, ret, run>>

\* the float genUfloatRange returns
packFloat(e, si, sf, fracBits, signifBits) ==
    LET e_ == Shl(ToUint64(ToUint64(e) + bitmask64(float64ExpBits - 1)),
                  float64SignifBits)
        s_ == Shl(BitOr(Shl(si, fracBits), sf), float64SignifBits - signifBits)
    IN  Float64frombits(BitOr(e_, s_))

\* the return of genUfloatRange, of genFloatRange and of floatGen.value; the
\* locals go with the frames
pack ==
    /\ pc = "pack"
    /\ LET f == packFloat(u.e, u.si, u.sf, u.fracBits, g.signifBits)
           v == IF u.neg THEN Neg(f) ELSE f
       IN  ret' = [f |-> v,
                   value |-> IF g.typ = "float32" THEN ToFloat32(v) ELSE v]
    /\ u' = NoLocals
    /\ pc' = "done"
    /\ UNCHANGED <<call, g, s, run>>

\* the stream runs out of bits under a draw, which unwinds the call
overrun ==
    /\ pc \in {"exp", "signifI", "signifF"}
    /\ pc' = "invalid"
    /\ u' = NoLocals
    /\ UNCHANGED <<call, g, s, ret, run>>

NoRun == [test |-> "none"]

NoRet == [f |-> Zero, value |-> Zero]

Init ==
    /\ pc = "new"
    /\ call = NoCall
    /\ g = NoGen
    /\ s = NoStream
    /\ u = NoLocals
    /\ ret = NoRet
    /\ run = NoRun

Next ==
    \/ pc = "new" /\ \E min, max \in Float32 : Float32sRange(min, max)
    \/ pc = "new" /\ \E min, max \in Float64 : Float64sRange(min, max)
    \/ genFloatRange
    \/ drawExp
    \/ drawSignifI
    \/ drawSignifF
    \/ emptyRange
    \/ shift
    \/ pack
    \/ overrun

Spec == Init /\ [][Next]_vars

-----------------------------------------------------------------------------
(* The float generators: properties.                                       *)

Bias64 == bitmask64(float64ExpBits - 1)

InUfloat == pc \in {"exp", "signifI", "signifF", "shift", "pack"}

\* C1: every value a completed draw returns lies in [min, max].
C1_InRange == pc = "done" => Le64(g.min, ret.f) /\ Le64(ret.f, g.max)

\* C6: every value drawn is a finite normal number of the requested width:
\* its unbiased exponent lies in [-(2^(expBits-1)-2), 2^(expBits-1)-1], only
\* the top signifBits bits of its significand can be set, and a Float32s
\* value converts to float32 and back without change.
C6_FiniteNormal ==
    pc = "done" =>
        LET e == ret.f.ex - Bias64
        IN  /\ e >= -(2^(g.expBits - 1) - 2)
            /\ e <= 2^(g.expBits - 1) - 1
            /\ ret.f.ex \notin {0, 2^float64ExpBits - 1}
            /\ ret.f.mt % 2^(float64SignifBits - g.signifBits) = 0
            /\ g.typ = "float32" =>
                /\ ret.value.ex \notin {0, 2^float32ExpBits - 1}
                /\ ToFloat64(ret.value) = ret.f

C6_Witness ==
    /\ pc = "done"
    /\ g.typ = "float32"
    /\ g.min = Zero
    /\ ret.f.ex - Bias64 = -(2^(float32ExpBits - 1) - 2)

\* C7: the constructors fail, building no generator, on a NaN bound or an
\* inverted range; no draw runs with such bounds, and genUfloatRange is only
\* entered with 0 <= min <= max.
C7_FailFast ==
    /\ (/\ call.fn = "Float32sRange"
        /\ \/ IsNaN(call.min, float32ExpBits)
           \/ IsNaN(call.max, float32ExpBits)
           \/ FVal(call.min, float32SignifBits) > FVal(call.max, float32SignifBits))
            => (g = NoGen /\ pc = "assertf")
    /\ (/\ call.fn = "Float64sRange"
        /\ \/ IsNaN(call.min, float64ExpBits)
           \/ IsNaN(call.max, float64ExpBits)
           \/ FVal(call.min, float64SignifBits) > FVal(call.max, float64SignifBits))
            => (g = NoGen /\ pc = "assertf")
    /\ g # NoGen =>
        /\ ~IsNaN(g.min, float64ExpBits)
        /\ ~IsNaN(g.max, float64ExpBits)
        /\ FVal(g.min, float64SignifBits) <= FVal(g.max, float64SignifBits)
    /\ pc # "assert"
    /\ InUfloat =>
        /\ ~IsNaN(u.min, float64ExpBits)
        /\ ~IsNaN(u.max, float64ExpBits)
        /\ 0 <= FVal(u.min, float64SignifBits)
        /\ FVal(u.min, float64SignifBits) <= FVal(u.max, float64SignifBits)

C7_Witness ==
    /\ pc = "assertf"
    /\ call.fn = "Float64sRange"
    /\ ~IsNaN(call.min, float64ExpBits)
    /\ ~IsNaN(call.max, float64ExpBits)
    /\ g = NoGen

\* C8: when min == max every draw returns min.
C8_Constant == (pc = "done" /\ Eq64(g.min, g.max)) => Eq64(ret.f, g.min)


\* The groups recorded on a stream are well nested: a closed group ends at or
\* after its begin, a group still open is on the stack, and two groups are
\* either disjoint in time or one lies inside the other.
WellNested(st) ==
    /\ \A n \in 1..Len(st.groups) :
        LET gr == st.groups[n]
        IN  /\ gr.end = -1 <=> \E m \in 1..Len(st.open) : st.open[m] = n
            /\ gr.end # -1 => gr.begin <= gr.end
    /\ \A m, n \in 1..Len(st.groups) :
        (m < n /\ st.groups[m].end # -1) =>
            \/ st.groups[m].end <= st.groups[n].begin
            \/ (st.groups[n].end # -1 /\ st.groups[n].end <= st.groups[m].end)
    /\ \A m, n \in 1..Len(st.open) : m < n => st.open[m] < st.open[n]

\* C9: a float draw flips the sign coin first, then draws the exponent inside
\* a "floatexp" group, then the integer part and the fractional part inside a
\* "floatsignif" group opened after "floatexp" was closed; each group spans
\* exactly its draws, and no group is left open at return.
C9_DrawOrder ==
    /\ WellNested(s)
    /\ pc = "exp" =>
        /\ s.draws = <<"flipBiasedCoin">>
        /\ s.groups = <<[label |-> floatExpLabel, isCall |-> FALSE,
                         begin |-> 1, end |-> -1]>>
        /\ s.open = <<u.i>>
    /\ pc \in {"signifI", "signifF"} =>
        /\ s.draws = IF pc = "signifI"
                     THEN <<"flipBiasedCoin", "genIntRange">>
                     ELSE <<"flipBiasedCoin", "genIntRange", "genUintRange">>
        /\ s.groups = <<[label |-> floatExpLabel, isCall |-> FALSE,
                         begin |-> 1, end |-> 2],
                        [label |-> floatSignifLabel, isCall |-> FALSE,
                         begin |-> 2, end |-> -1]>>
        /\ s.open = <<u.j>>
    /\ pc \in {"shift", "pack", "done"} =>
        /\ s.draws = <<"flipBiasedCoin", "genIntRange", "genUintRange",
                       "genUintRangeWidth">>
        /\ s.groups = <<[label |-> floatExpLabel, isCall |-> FALSE,
                         begin |-> 1, end |-> 2],
                        [label |-> floatSignifLabel, isCall |-> FALSE,
                         begin |-> 2, end |-> 4]>>
        /\ s.open = <<>>
        /\ pc # "done" => Len(s.open) = u.depth

C9_Witness ==
    /\ pc = "done"
    /\ Len(s.groups) = 2
    /\ s.groups[2].end - s.groups[2].begin = 2
    /\ ret.f.sg = 1

\* C10: the loop that doubles sf makes at most fracBits - w passes and keeps
\* sfMin <= sf <= sfMax and sf < 2^fracBits after each of them; it ends at the
\* first doubling that would leave [sfMin, sfMax] or wrap, and the packed
\* significand si << fracBits | sf leaves the exponent field alone.
C10_ShiftLoop ==
    pc \in {"shift", "pack"} =>
        /\ u.k >= 0
        /\ u.k <= IF u.fracBits > u.w THEN u.fracBits - u.w ELSE 0
        /\ u.sfMin <= u.sf
        /\ u.sf <= u.sfMax
        /\ u.sf < 2^u.fracBits
        /\ pc = "pack" =>
            /\ \/ u.k >= u.fracBits - u.w
               \/ 2 * u.sf < u.sfMin
               \/ 2 * u.sf > u.sfMax
               \/ (2 * u.sf) % 2^UintBits < u.sf
            /\ BitOr(Shl(u.si, u.fracBits), u.sf) < 2^g.signifBits
            /\ LET f == packFloat(u.e, u.si, u.sf, u.fracBits, g.signifBits)
               IN  /\ f.ex = u.e + Bias64
                   /\ f.mt = (u.si * 2^u.fracBits + u.sf)
                                * 2^(float64SignifBits - g.signifBits)

C10_Witness ==
    /\ pc = "pack"
    /\ u.k >= 1
    /\ u.k < u.fracBits - u.w
    /\ 2 * u.sf > u.sfMax
    /\ u.sf > 0

-----------------------------------------------------------------------------
(* The generator algebra, as the tests use it.  One property execution:    *)
(* the generator of the test is drawn from a fresh bit stream and the      *)
(* property runs on what was drawn.                                        *)

\* width of int (scaled)
IntBits == 5

\* the retries of a Filter before the draw is given up
maxTries == 3

Ints == (-(2^(IntBits - 1)))..(2^(IntBits - 1) - 1)

\* int arithmetic wraps
wrap(x) == ((x + 2^(IntBits - 1)) % 2^IntBits) - 2^(IntBits - 1)

\* genPair: two draws of Ints()
genPair == {<<x, y>> : x \in Ints, y \in Ints}

TestTupleUnpackArgs_filter(x, y) == x # y

TestTupleUnpackArgs_map(x, y) == <<x, wrap(x * 2), wrap(y * 2)>>

\* the property calls Fatalf
TestTupleUnpackArgs_fails(a, b, c) == b # wrap(a * 2) \/ b = c

TestFilter_pred_offByOne(i) == i >= -1

TestFilter_pred(i) == i >= 0

TestFilter_fails(v) == v < 0

TestOneOf_pos(v) == v >= 10

TestOneOf_neg(v) == v <= -10

TestOneOf_fails(n) == n > -10 /\ n < 10

TestPanicTraceback_pred_identity(b) == b

TestPanicTraceback_pred(b) == FALSE

TestPtrs_fails(i, allowNil) == i.nil /\ ~allowNil

Tests ==
    {"TestFilter", "TestOneOf", "TestPanicTraceback", "TestTupleUnpackArgs", "TestPtrs"}

\* what the generator under the Filter of the test can produce, and the
\* primitive draws that takes
filterSource(test) ==
    CASE test = "TestTupleUnpackArgs" -> [values |-> genPair, draws |-> <<"Ints", "Ints">>]
      [] test = "TestPanicTraceback" ->
            [values |-> {<<b>> : b \in BOOLEAN}, draws |-> <<"Booleans">>]
      [] OTHER -> [values |-> {<<i>> : i \in Ints}, draws |-> <<"Ints">>]

filterPred(test, branch, c) ==
    CASE test = "TestTupleUnpackArgs" -> TestTupleUnpackArgs_filter(c[1], c[2])
      [] test = "TestPanicTraceback" -> TestPanicTraceback_pred(c[1])
      [] test = "TestFilter" -> TestFilter_pred(c[1])
      [] test = "TestOneOf" -> IF branch = 1 THEN TestOneOf_pos(c[1]) ELSE TestOneOf_neg(c[1])

\* what follows the Filter in the generator of the test
afterFilter(test) ==
    CASE test = "TestTupleUnpackArgs" -> "map"
      [] test = "TestPanicTraceback" -> "end"
      [] OTHER -> "prop"

propertyFails(r) ==
    CASE r.test = "TestTupleUnpackArgs" ->
            TestTupleUnpackArgs_fails(r.val[1], r.val[2], r.val[3])
      [] r.test = "TestFilter" -> TestFilter_fails(r.val[1])
      [] r.test = "TestOneOf" -> TestOneOf_fails(r.val[1])
      [] r.test = "TestPtrs" -> TestPtrs_fails(r.val, r.allowNil)

\* Ptrs(Ints(), allowNil): the pointer drawn and the primitive draws made
ptrsValue_alwaysCoin(allowNil) ==
    {[val |-> [nil |-> TRUE, v |-> 0], draws |-> <<"flipBiasedCoin">>]} \cup
    {[val |-> [nil |-> FALSE, v |-> i], draws |-> <<"flipBiasedCoin", "Ints">>] :
        i \in Ints}

ptrsValue(allowNil) ==
    IF allowNil
    THEN {[val |-> [nil |-> TRUE, v |-> 0], draws |-> <<"flipBiasedCoin">>]} \cup
         {[val |-> [nil |-> FALSE, v |-> i], draws |-> <<"flipBiasedCoin", "Ints">>] :
            i \in Ints}
    ELSE {[val |-> [nil |-> FALSE, v |-> i], draws |-> <<"Ints">>] : i \in Ints}

\* a test starts one execution of its property
check(test, allowNil) ==
    /\ run.test = "none"
    /\ test = "TestPtrs" \/ ~allowNil
    /\ run' = [test |-> test, allowNil |-> allowNil,
               at |-> CASE test = "TestOneOf" -> "oneof"
                        [] test = "TestPtrs" -> "ptrs"
                        [] OTHER -> "filter",
               branch |-> 0, tries |-> 0, draws |-> <<>>, val |-> <<>>,
               out |-> "Running", err |-> "none"]
    /\ UNCHANGED <<pc, call, g, s, u, ret>>

\* OneOf draws which of its generators to use
oneOf ==
    /\ run.test # "none"
    /\ run.at = "oneof"
    /\ \E n \in 1..2 :
        run' = [run EXCEPT !.branch = n, !.draws = Append(@, "OneOf"),
                           !.at = "filter"]
    /\ UNCHANGED <<pc, call, g, s, u, ret>>

\* one try of Filter: a draw from the generator under it, kept if the
\* predicate holds
satisfy ==
    /\ run.test # "none"
    /\ run.at = "filter"
    /\ run.tries < maxTries
    /\ LET src == filterSource(run.test)
       IN  \E c \in src.values :
            IF filterPred(run.test, run.branch, c)
            THEN run' = [run EXCEPT !.draws = @ \o src.draws, !.val = c,
                                    !.at = afterFilter(run.test),
                                    !.out = IF afterFilter(run.test) = "end"
                                            THEN "Returned" ELSE @]
            ELSE run' = [run EXCEPT !.draws = @ \o src.draws, !.tries = @ + 1]
    /\ UNCHANGED <<pc, call, g, s, u, ret>>

\* Filter is out of tries: satisfy panics, the execution is invalid
satisfyFail ==
    /\ run.test # "none"
    /\ run.at = "filter"
    /\ run.tries >= maxTries
    /\ run' = [run EXCEPT !.at = "end", !.out = "Invalid", !.err = "satisfy"]
    /\ UNCHANGED <<pc, call, g, s, u, ret>>

\* Map applies its function to what the Filter let through
map ==
    /\ run.test # "none"
    /\ run.at = "map"
    /\ run' = [run EXCEPT !.val = TestTupleUnpackArgs_map(run.val[1], run.val[2]),
                          !.at = "prop"]
    /\ UNCHANGED <<pc, call, g, s, u, ret>>

ptrs ==
    /\ run.test # "none"
    /\ run.at = "ptrs"
    /\ \E p \in ptrsValue(run.allowNil) :
        run' = [run EXCEPT !.val = p.val, !.draws = @ \o p.draws, !.at = "prop"]
    /\ UNCHANGED <<pc, call, g, s, u, ret>>

\* the property runs on the values drawn
property ==
    /\ run.test # "none"
    /\ run.at = "prop"
    /\ run' = [run EXCEPT !.at = "end",
                          !.out = IF propertyFails(run) THEN "Failed" ELSE "Passed"]
    /\ UNCHANGED <<pc, call, g, s, u, ret>>

NextGen ==
    \/ \E test \in Tests, allowNil \in BOOLEAN : check(test, allowNil)
    \/ oneOf
    \/ satisfy
    \/ satisfyFail
    \/ map
    \/ ptrs
    \/ property

SpecGen == Init /\ [][NextGen]_vars

-----------------------------------------------------------------------------
(* The generator algebra: properties.                                      *)

Delivered(test) ==
    /\ run.test = test
    /\ run.at \in {"prop", "end"}
    /\ run.out # "Invalid"

\* C2: a value a Filter lets through to the property satisfies the predicate:
\* TestFilter never sees a negative int, TestOneOf never sees an int strictly
\* between -10 and 10, and neither property fails.
C2_FilterHolds ==
    /\ Delivered("TestFilter") => (run.val[1] >= 0 /\ run.out # "Failed")
    /\ Delivered("TestOneOf") =>
        /\ run.val[1] >= 10 \/ run.val[1] <= -10
        /\ run.branch = 1 => run.val[1] >= 10
        /\ run.branch = 2 => run.val[1] <= -10
        /\ run.out # "Failed"

C2_Witness ==
    /\ Delivered("TestFilter")
    /\ run.at = "end"
    /\ run.tries > 0
    /\ run.out = "Passed"
    /\ run.val[1] = 0

\* C3: a Filter that rejects every candidate gives up after maxTries tries
\* without a value: the error comes from satisfy, the execution is invalid,
\* neither failed nor passed, and the draw never hangs before that.
C3_FilterExhausted ==
    run.test = "TestPanicTraceback" =>
        /\ run.tries <= maxTries
        /\ run.val = <<>>
        /\ run.out \in {"Running", "Invalid"}
        /\ Len(run.draws) = run.tries
        /\ run.at = "end" =>
            /\ run.out = "Invalid"
            /\ run.err = "satisfy"
            /\ run.tries = maxTries
        /\ run.at # "end" => ENABLED (satisfy \/ satisfyFail)

C3_Witness ==
    /\ run.test = "TestPanicTraceback"
    /\ run.at = "end"
    /\ run.out = "Invalid"
    /\ run.err = "satisfy"

\* C4: every triple (a, b, c) that Custom(genPair).Filter(x != y).Map(...)
\* hands to the property of TestTupleUnpackArgs has b == a*2 and b != c.
C4_TripleHolds ==
    Delivered("TestTupleUnpackArgs") /\ run.at = "end" =>
        /\ run.val[2] = wrap(run.val[1] * 2)
        /\ run.val[2] # run.val[3]
        /\ run.out # "Failed"

\* C5: Ptrs(g, false) never yields nil and makes exactly the draws of g, with
\* no presence coin; nil is yielded only under allowNil.
C5_PtrsNonNil ==
    (run.test = "TestPtrs" /\ run.at \in {"prop", "end"}) =>
        /\ ~run.allowNil => (~run.val.nil /\ run.draws = <<"Ints">>)
        /\ run.val.nil => run.allowNil
        /\ run.out # "Failed"

C5_Witness ==
    /\ run.test = "TestPtrs"
    /\ ~run.allowNil
    /\ run.at = "end"
    /\ run.out = "Passed"
    /\ ~run.val.nil

====
